---- MODULE Spec2Model ----
(***************************************************************************)
(* Model of iterpipes3: one execution of a constructed command.            *)
(*                                                                         *)
(* Four parties take steps: the caller (run / call / check_call, asking    *)
(* the output generator for elements or closing it), the main thread       *)
(* inside the _run_pipeline generator and the _popen context manager, the  *)
(* feeder thread (_popen.write) and the spawned process.  The two pipes    *)
(* are bounded queues.  fd.write is modelled as an unbuffered pipe write:  *)
(* it blocks while the pipe is full and raises IOError(EPIPE) once the     *)
(* process has closed the read side.                                       *)
(***************************************************************************)
EXTENDS Integers, Sequences, FiniteSets, TLC

\* ---------------------------------------------------------------- bounds
MaxInputLen == 2      \* longest input sequence
MaxTemplateLen == 3   \* longest template handed to format
MaxArgs == 2          \* longest argument list handed to format
StdinCap    == 1      \* elements the stdin pipe holds before write blocks
StdoutCap   == 1      \* bytes the stdout pipe holds before the process blocks
MaxOut      == 2      \* bytes the process writes at most

\* ------------------------------------------------------ program constants
DEFAULT_READ_BUFSIZE == 4096

\* ------------------------------------------------------------- exceptions
\* An exception object: its class, its errno (IOError only), the place that
\* raised it (which identifies the object), and CalledProcessError's fields.
Exc(cls, errno, origin) ==
    [cls |-> cls, errno |-> errno, origin |-> origin, returncode |-> 0, cmd |-> ""]

NoExc == Exc("none", "none", "none")

GeneratorExit == Exc("GeneratorExit", "none", "close")

\* read(bufsize) of p.stdout failing inside the generator
ReadError == Exc("IOError", "EIO", "read")

\* fd.write(x) on a pipe whose read side is closed
BrokenPipe == Exc("IOError", "EPIPE", "write")

\* what the input source may raise when the feeder asks it for an element
SourceExc(end) ==
    CASE end = "Exception"     -> Exc("Exception", "none", "source")
      [] end = "EPIPE"         -> Exc("IOError", "EPIPE", "source")
      [] end = "EIO"           -> Exc("IOError", "EIO", "source")
      [] end = "BaseException" -> Exc("BaseException", "none", "source")
      [] OTHER                 -> NoExc

\* isinstance(e, IOError)
IsIOError(e) == e.cls = "IOError"

\* isinstance(e, Exception): GeneratorExit and other BaseExceptions are not
IsException(e) == e.cls \in {"IOError", "Exception", "TypeError", "CalledProcessError"}


\* ------------------------------------------------------------------ state
VARIABLES
    helper,         \* "run", "call" or "check_call": the entry point used
    flavor,         \* "bincmd" or "cmd": the constructor of the command
    command,        \* the formatted command string
    input,          \* the input source handed to the command
    opts,           \* spawn options: stdout ("PIPE" or "fd"), stdin and bufsize
    pc,             \* where the main thread is in _run_pipeline / _popen
    pending,        \* the exception in flight while the with block is left
    result,         \* how the output generator ended
    callResult,     \* what the helper gave back to its caller
    proc,           \* the spawned process (Popen object and the OS process)
    stdinBuf,       \* contents of the stdin pipe
    stdoutBuf,      \* contents of the stdout pipe
    feeder,         \* the writer thread
    write_excpts,   \* exceptions captured by the feeder
    stdinFd,        \* p.stdin: "none", "open" or "closed"
    written,        \* elements the feeder wrote, in order
    yielded,        \* chunks the generator yielded, in order
    procOut,        \* bytes the process wrote to stdout, in order
    linebuf,        \* the bytes of an unfinished line the reader of p.stdout holds
    fmt,            \* a call of format: its arguments and its result
    counts          \* how often Popen, terminate, wait, fd.close, Thread.start ran

vars == <<helper, flavor, command, input, opts, pc, pending, result, callResult,
          proc, stdinBuf, stdoutBuf, feeder, write_excpts, stdinFd,
          written, yielded, procOut, linebuf, fmt, counts>>

args   == <<helper, flavor, command, input, opts, fmt>>
hist   == <<written, yielded, procOut>>

Min(a, b) == IF a < b THEN a ELSE b

Helpers  == {"run", "call", "check_call"}
Flavors  == {"bincmd", "cmd"}
Commands == {"grep foo"}
ExitCodes == {0, 1}
SourceEnds == {"stop", "Exception", "EPIPE", "EIO", "BaseException"}

\* the bytes of the elements of the generic inputs
Letters == <<"a", "b", "c", "d">>

\* the input sources: None, a value that is not iterable, or an iterable that
\* yields n one-byte elements and then stops or raises
InputNone == [kind |-> "None", items |-> <<>>, end |-> "stop"]

InputNotIterable == [kind |-> "NotIterable", items |-> <<>>, end |-> "stop"]

Iterables ==
    { [kind |-> "Iterable", items |-> [i \in 1..n |-> <<Letters[i]>>], end |-> e] :
        n \in 0..MaxInputLen, e \in SourceEnds }

Inputs == {InputNone, InputNotIterable} \cup Iterables

\* the stdin keyword of the command's spawn options: absent, or a redirection
StdinUnset == [kind |-> "Unset", items |-> <<>>, end |-> "stop"]

StdinRedirect == [kind |-> "Redirect", items |-> <<>>, end |-> "stop"]

\* hasattr(x, '__iter__'): str and bytes values have it as well
_is_iterable(x) == x.kind \in {"Iterable", "Text", "Bytes"}

\* a read size that ignores the bufsize option
BufsizeDefault(o) == DEFAULT_READ_BUFSIZE

\* bufsize = DEFAULT_READ_BUFSIZE if bs_opt <= 0 else bs_opt
Bufsize(o) == IF o.bufsize <= 0 THEN DEFAULT_READ_BUFSIZE ELSE o.bufsize

NoProc ==
    [state |-> "unspawned", returncode |-> 0, stdin |-> "none",
     stdinOpen |-> FALSE, stdoutOpen |-> FALSE, hold |-> <<>>]

NoFeeder ==
    [pc |-> "none", idx |-> 0, elem |-> <<>>, x |-> <<>>, exit |-> "none",
     exc |-> NoExc]

Pending == [kind |-> "pending", value |-> 0, exc |-> NoExc]

\* no call of format: the command string is given
NoFormat == [state |-> "none"]

Init ==
    /\ helper \in Helpers
    /\ flavor \in Flavors
    /\ command \in Commands
    /\ input \in Inputs
    /\ opts \in [stdout : {"PIPE", "fd"}, stdin : {StdinUnset, StdinRedirect},
                  bufsize : {0}]
    /\ pc = "init"
    /\ pending = NoExc
    /\ result = Pending
    /\ callResult = Pending
    /\ proc = NoProc
    /\ stdinBuf = <<>>
    /\ stdoutBuf = <<>>
    /\ feeder = NoFeeder
    /\ write_excpts = <<>>
    /\ stdinFd = "none"
    /\ written = <<>>
    /\ yielded = <<>>
    /\ procOut = <<>>
    /\ linebuf = <<>>
    /\ fmt = NoFormat
    /\ counts = [popen |-> 0, terminate |-> 0, wait |-> 0, close |-> 0, start |-> 0]

\* ------------------------------------------------- results of the helpers
Stop == [kind |-> "stop", value |-> 0, exc |-> NoExc]

Closed == [kind |-> "closed", value |-> 0, exc |-> NoExc]

Raised(e) == [kind |-> "raise", value |-> 0, exc |-> e]

Returned(v) == [kind |-> "return", value |-> v, exc |-> NoExc]

\* CalledProcessError(ret, *args): args of _popen is (command,)
CalledProcessError(ret, cmdline) ==
    [cls |-> "CalledProcessError", errno |-> "none", origin |-> "wait",
     returncode |-> ret, cmd |-> cmdline]

\* _retcode without its except clause
_retcodeUncaught(res) ==
    IF res.kind = "raise" THEN Raised(res.exc) ELSE Returned(0)

\* _retcode: the return code of a CalledProcessError, 0 without exception,
\* any other exception passes through
_retcode(res) ==
    IF res.kind = "raise"
    THEN IF res.exc.cls = "CalledProcessError"
         THEN Returned(res.exc.returncode)
         ELSE Raised(res.exc)
    ELSE Returned(0)

\* _consume: runs the generator to its end; an exception passes through
_consume(res) ==
    IF res.kind = "raise" THEN Raised(res.exc) ELSE Returned(0)

\* check_call built on _retcode: the return code is dropped
HelperResultUnchecked(h, res, old) ==
    CASE h = "call"       -> _retcode(res)
      [] h = "check_call" -> Returned(0)
      [] OTHER            -> old

\* what run / call / check_call hand to their caller once the generator ended
\* with res; run has returned the generator already
HelperResult(h, res, old) ==
    CASE h = "call"       -> _retcode(res)
      [] h = "check_call" -> _consume(res)
      [] OTHER            -> old

\* the generator ends with res and control is back in the helper
Finish(res) ==
    /\ pc' = "finished"
    /\ result' = res
    /\ callResult' = HelperResult(helper, res, callResult)

\* p.terminate(): SIGTERM to a process that still runs
Terminated(p) ==
    IF p.state = "running"
    THEN [state |-> "exited", returncode |-> -15, stdin |-> p.stdin,
          stdinOpen |-> FALSE, stdoutOpen |-> FALSE, hold |-> <<>>]
    ELSE p

\* an exception e reaches the try statement of _popen: `except Exception`
\* terminates the process and re-raises; anything else just propagates.
\* A GeneratorExit that leaves the generator makes close() return normally.
Propagate(e) ==
    /\ proc' = IF IsException(e) THEN Terminated(proc) ELSE proc
    /\ counts' = IF IsException(e)
                 THEN [counts EXCEPT !.terminate = @ + 1]
                 ELSE counts
    /\ Finish(IF e = GeneratorExit THEN Closed ELSE Raised(e))

\* the with block of _run_pipeline is left with exception e (NoExc: normally):
\* with a feeder, _popen first joins it; without, the else branch of _popen
\* waits for the process or the except branch handles e
ExitWith(e) ==
    /\ pending' = e
    /\ IF _is_iterable(input)
       THEN /\ pc' = "joining"
            /\ UNCHANGED <<result, callResult, proc, counts>>
       ELSE IF e = NoExc
            THEN /\ pc' = "waiting"
                 /\ UNCHANGED <<result, callResult, proc, counts>>
            ELSE Propagate(e)

\* ------------------------------------------------------------ main thread
\* cmd.encode: a generator expression over xs, whose iter(xs) runs at once
EncodeFails(fl, xs) == fl \in {"cmd", "linecmd"} /\ xs.kind = "NotIterable"

\* run / call / check_call: cmd(input).  _run_pipeline is a generator
\* function, so the call only creates the generator.
Execute ==
    /\ pc = "init"
    /\ IF EncodeFails(flavor, input)
       THEN /\ pc' = "nogen"
            /\ callResult' = Raised(Exc("TypeError", "none", "encode"))
       ELSE /\ pc' = "unstarted"
            /\ callResult' = IF helper = "run" THEN Returned(0) ELSE callResult
    /\ UNCHANGED <<args, linebuf, pending, result, proc, stdinBuf, stdoutBuf, feeder,
                   write_excpts, stdinFd, hist, counts>>

\* Popen and writer.start() without the test of stdin
SpawnedAlwaysFeeding(c, stdin) ==
    [c EXCEPT !.popen = @ + 1, !.start = @ + 1]

\* the counters after Popen(...) and, for an iterable stdin, writer.start()
Spawned(c, stdin) ==
    [c EXCEPT !.popen = @ + 1,
              !.start = IF _is_iterable(stdin) THEN @ + 1 ELSE @]

\* a generator that reads p.stdout without testing it for None
AfterSpawnUntested(o, stdin) == "reading"

\* `if p.stdout is None: return` leaves the with block at once, into the
\* join of the feeder or the wait for the process; else the read loop starts
AfterSpawn(o, stdin) ==
    IF o.stdout = "PIPE" THEN "reading"
    ELSE IF _is_iterable(stdin) THEN "joining" ELSE "waiting"

\* spawn options in which a stdin given by the caller stays
PipelineOptsKeepStdin(o, in) ==
    IF o.stdin = StdinUnset THEN [o EXCEPT !.stdin = in] ELSE o

\* opts.update(dict(shell=True, stdin=input)): the keyword arguments _popen
\* gets
PipelineOpts(o, in) == [o EXCEPT !.stdin = in]

\* the stdin Popen is called with: PIPE in place of an iterable, else what
\* kwargs holds, and None leaves the process the stdin of its parent
PopenStdin(kwargs) ==
    IF _is_iterable(kwargs.stdin) THEN "PIPE"
    ELSE IF kwargs.stdin.kind = "None" THEN "inherit"
    ELSE "redirect"

\* first next() of the generator: the type check, Popen, the feeder thread,
\* and the test of p.stdout
Start ==
    /\ pc = "unstarted"
    /\ IF ~(_is_iterable(input) \/ input.kind = "None")
       THEN /\ Finish(Raised(Exc("TypeError", "none", "_run_pipeline")))
            /\ UNCHANGED <<pending, proc, feeder, stdinFd, counts>>
       ELSE LET kwargs == PipelineOpts(opts, input)
                stdin == kwargs.stdin
            IN /\ proc' = [state |-> "running", returncode |-> 0,
                           stdin |-> PopenStdin(kwargs),
                           stdinOpen |-> _is_iterable(stdin),
                           stdoutOpen |-> (kwargs.stdout = "PIPE"),
                           hold |-> <<>>]
               /\ stdinFd' = IF _is_iterable(stdin) THEN "open" ELSE "none"
               /\ feeder' = IF _is_iterable(stdin)
                            THEN [NoFeeder EXCEPT !.pc = "iter"]
                            ELSE feeder
               /\ counts' = Spawned(counts, stdin)
               /\ pc' = AfterSpawn(kwargs, stdin)
               /\ UNCHANGED <<pending, result, callResult>>
    /\ UNCHANGED <<args, linebuf, stdinBuf, stdoutBuf, write_excpts, hist>>

\* next() on a generator suspended at `yield x`: back into the read loop
Resume ==
    /\ pc = "suspended"
    /\ pc' = "reading"
    /\ UNCHANGED <<args, linebuf, pending, result, callResult, proc, stdinBuf, stdoutBuf,
                   feeder, write_excpts, stdinFd, hist, counts>>

\* the index of the first newline of buf from position i on, 0 if none
RECURSIVE FirstNewline(_, _)
FirstNewline(buf, i) ==
    IF i > Len(buf) THEN 0
    ELSE IF buf[i] = "\n" THEN i ELSE FirstNewline(buf, i + 1)

\* how many bytes of the pipe the next element of xs takes.  bufsize = 1: xs
\* is p.stdout itself, whose iteration gives one line, up to its newline or,
\* at end of file, what is left.  Otherwise read(bufsize) gives what is
\* there, at most bufsize bytes.
ReadSizes(buf, bufsize, open) ==
    IF bufsize # 1
    THEN 1..Min(Len(buf), bufsize)
    ELSE IF FirstNewline(buf, 1) > 0 THEN {FirstNewline(buf, 1)}
         ELSE IF ~open THEN {Len(buf)} ELSE {}

\* the next line of p.stdout is not complete yet: the reader takes what the
\* pipe holds and goes on reading
ReadLinePart ==
    /\ pc = "reading"
    /\ Bufsize(opts) = 1
    /\ Len(stdoutBuf) > 0
    /\ FirstNewline(stdoutBuf, 1) = 0
    /\ linebuf' = linebuf \o stdoutBuf
    /\ stdoutBuf' = <<>>
    /\ UNCHANGED <<args, pc, pending, result, callResult, proc, stdinBuf, feeder,
                   write_excpts, stdinFd, hist, counts>>

\* p.stdout.read(bufsize), or the next line of p.stdout, returns data: the
\* generator yields it
ReadChunk ==
    /\ pc = "reading"
    /\ Len(stdoutBuf) > 0 \/ Len(linebuf) > 0
    /\ \E k \in ReadSizes(stdoutBuf, Bufsize(opts), proc.stdoutOpen) :
          /\ yielded' = Append(yielded, linebuf \o SubSeq(stdoutBuf, 1, k))
          /\ stdoutBuf' = SubSeq(stdoutBuf, k + 1, Len(stdoutBuf))
    /\ linebuf' = <<>>
    /\ pc' = "suspended"
    /\ UNCHANGED <<args, pending, result, callResult, proc, stdinBuf, feeder,
                   write_excpts, stdinFd, written, procOut, counts>>

\* a read that returns b'' whenever no data is there yet
AtEmptyPipe == Len(stdoutBuf) = 0

\* read returns b'' only at end of file: pipe empty and write side closed
AtEOF == Len(stdoutBuf) = 0 /\ Len(linebuf) = 0 /\ ~proc.stdoutOpen

\* read returns the sentinel b'': the loop ends and the with block is left
ReadEOF ==
    /\ pc = "reading"
    /\ AtEOF
    /\ ExitWith(NoExc)
    /\ UNCHANGED <<args, linebuf, stdinBuf, stdoutBuf, feeder, write_excpts, stdinFd, hist>>

\* read raises inside the generator
ReadFails ==
    /\ pc = "reading"
    /\ ExitWith(ReadError)
    /\ UNCHANGED <<args, linebuf, stdinBuf, stdoutBuf, feeder, write_excpts, stdinFd, hist>>

\* the caller abandons the generator: close() before the first next() runs
\* no code; at `yield x` it throws GeneratorExit into the with block
Close ==
    /\ helper = "run"
    /\ pc \in {"unstarted", "suspended"}
    /\ IF pc = "unstarted"
       THEN Finish(Closed) /\ UNCHANGED <<pending, proc, counts>>
       ELSE ExitWith(GeneratorExit)
    /\ UNCHANGED <<args, linebuf, stdinBuf, stdoutBuf, feeder, write_excpts, stdinFd, hist>>

\* the finally block of _popen: writer.join() returns once the feeder is
\* done; a captured exception is raised from the finally block, replacing
\* whatever was in flight
JoinDone ==
    /\ pc = "joining"
    /\ feeder.pc = "done"
    /\ IF Len(write_excpts) > 0
       THEN /\ write_excpts' = SubSeq(write_excpts, 1, Len(write_excpts) - 1)
            /\ Propagate(write_excpts[Len(write_excpts)])
       ELSE /\ UNCHANGED write_excpts
            /\ IF pending = NoExc
               THEN /\ pc' = "waiting"
                    /\ UNCHANGED <<result, callResult, proc, counts>>
               ELSE Propagate(pending)
    /\ UNCHANGED <<args, linebuf, pending, stdinBuf, stdoutBuf, feeder, stdinFd, hist>>

\* if ret != 0: raise CalledProcessError(ret, *args)
WaitResult(ret, cmdline) ==
    IF ret # 0 THEN Raised(CalledProcessError(ret, cmdline)) ELSE Stop

\* the else branch of _popen: ret = p.wait(), then the check of ret
WaitDone ==
    /\ pc = "waiting"
    /\ proc.state = "exited"
    /\ counts' = [counts EXCEPT !.wait = @ + 1]
    /\ Finish(WaitResult(proc.returncode, command))
    /\ UNCHANGED <<args, linebuf, pending, proc, stdinBuf, stdoutBuf, feeder, write_excpts,
                   stdinFd, hist>>

\* ----------------------------------------------------------- feeder thread
\* write without the errno test: every Exception is recorded
CaptureAnyErrno(excpts, e) ==
    IF IsException(e) THEN Append(excpts, e) ELSE excpts

\* the except clauses of write: an IOError is recorded unless its errno is
\* EPIPE, any other Exception is recorded, anything else escapes the thread
Capture(excpts, e) ==
    IF IsIOError(e)
    THEN IF e.errno # "EPIPE" THEN Append(excpts, e) ELSE excpts
    ELSE IF IsException(e) THEN Append(excpts, e) ELSE excpts

\* how the feeder ended after exception e
ExitKind(e) ==
    IF IsIOError(e)
    THEN IF e.errno # "EPIPE" THEN "captured" ELSE "epipe"
    ELSE IF IsException(e) THEN "captured" ELSE "uncaught"

\* a feeder whose fd.close() is the last statement of the try block
FeederRaiseUnclosed(e) ==
    /\ write_excpts' = Capture(write_excpts, e)
    /\ feeder' = [feeder EXCEPT !.pc = "done", !.elem = <<>>, !.x = <<>>,
                                 !.exit = ExitKind(e), !.exc = e]
    /\ UNCHANGED <<stdinFd, counts>>

\* the feeder leaves the try statement with exception e: the handlers, then
\* the finally clause closes the pipe
FeederRaise(e) ==
    /\ write_excpts' = Capture(write_excpts, e)
    /\ feeder' = [feeder EXCEPT !.pc = "done", !.elem = <<>>, !.x = <<>>,
                                 !.exit = ExitKind(e), !.exc = e]
    /\ stdinFd' = "closed"
    /\ counts' = [counts EXCEPT !.close = @ + 1]

\* x.encode(encoding) in a UTF-8 like encoding: one or two bytes per character
EncodeChar(c) == IF c = "é" THEN <<"C3", "A9">> ELSE <<c>>

RECURSIVE Encode(_)
Encode(text) ==
    IF text = <<>> THEN <<>> ELSE EncodeChar(Head(text)) \o Encode(Tail(text))

\* what iter(stdin) of the feeder yields.  bincmd hands the input over as it
\* is, but for a str value wrapped in a list; cmd sends it through encode,
\* which tests the builtin `input` instead of xs and so always takes the
\* generator expression: an iterable is encoded element by element, a str
\* value character by character.  A bytes value handed to bincmd iterates
\* as one int per byte.
StdinItems(fl, in) ==
    IF fl = "bincmd"
    THEN IF in.kind = "Bytes"
         THEN [i \in 1..Len(in.items[1]) |-> <<in.items[1][i]>>]
         ELSE in.items
    ELSE IF in.kind = "Text"
         THEN [i \in 1..Len(in.items[1]) |-> Encode(<<in.items[1][i]>>)]
         ELSE [i \in 1..Len(in.items) |-> Encode(in.items[i])]

\* fd.write(x) accepts bytes only: the ints of a bytes value and the str that
\* bincmd passes through raise TypeError
Unwritable(fl, in) == fl = "bincmd" /\ in.kind \in {"Text", "Bytes"}

\* a feeder that takes the elements from the far end
NextElementReversed(items, idx) == items[Len(items) - idx]

\* the source's next element, in iteration order
NextElement(items, idx) == items[idx + 1]

\* `for x in xs`: the source yields its next element, stops or raises
FeederNext ==
    /\ feeder.pc = "iter"
    /\ IF feeder.idx < Len(StdinItems(flavor, input))
       THEN /\ LET x == NextElement(StdinItems(flavor, input), feeder.idx)
               IN feeder' = [feeder EXCEPT !.pc = "write", !.idx = @ + 1,
                                           !.elem = x, !.x = x]
            /\ UNCHANGED <<write_excpts, stdinFd, counts>>
       ELSE IF input.end = "stop"
            THEN /\ feeder' = [feeder EXCEPT !.pc = "done", !.exit = "exhausted"]
                 /\ stdinFd' = "closed"
                 /\ counts' = [counts EXCEPT !.close = @ + 1]
                 /\ UNCHANGED write_excpts
            ELSE FeederRaise(SourceExc(input.end))
    /\ UNCHANGED <<args, linebuf, pc, pending, result, callResult, proc, stdinBuf,
                   stdoutBuf, hist>>

\* fd.write(x): TypeError for a value that is not bytes, EPIPE when the
\* process closed the read side; else the bytes of x go into the pipe as
\* room appears, and write returns when the last one is in
FeederWrite ==
    /\ feeder.pc = "write"
    /\ IF Unwritable(flavor, input)
       THEN /\ FeederRaise(Exc("TypeError", "none", "write"))
            /\ UNCHANGED <<stdinBuf, written>>
       ELSE IF ~proc.stdinOpen
       THEN /\ FeederRaise(BrokenPipe)
            /\ UNCHANGED <<stdinBuf, written>>
       ELSE /\ Len(stdinBuf) < StdinCap
            /\ LET k == Min(StdinCap - Len(stdinBuf), Len(feeder.x))
                   rest == SubSeq(feeder.x, k + 1, Len(feeder.x))
               IN /\ stdinBuf' = stdinBuf \o SubSeq(feeder.x, 1, k)
                  /\ IF rest = <<>>
                     THEN /\ written' = Append(written, feeder.elem)
                          /\ feeder' = [feeder EXCEPT !.pc = "iter", !.elem = <<>>,
                                                      !.x = <<>>]
                     ELSE /\ UNCHANGED written
                          /\ feeder' = [feeder EXCEPT !.x = rest]
            /\ UNCHANGED <<write_excpts, stdinFd, counts>>
    /\ UNCHANGED <<args, linebuf, pc, pending, result, callResult, proc, stdoutBuf,
                   yielded, procOut>>

\* ---------------------------------------------------------------- process
\* the process reads one element from its stdin
ProcRead ==
    /\ proc.state = "running"
    /\ proc.stdinOpen
    /\ Len(stdinBuf) > 0
    /\ stdinBuf' = Tail(stdinBuf)
    /\ UNCHANGED <<args, linebuf, pc, pending, result, callResult, proc, stdoutBuf,
                   feeder, write_excpts, stdinFd, hist, counts>>

\* the process closes the read side of its stdin (head has seen enough)
ProcCloseStdin ==
    /\ proc.state = "running"
    /\ proc.stdinOpen
    /\ proc' = [proc EXCEPT !.stdinOpen = FALSE]
    /\ stdinBuf' = <<>>
    /\ UNCHANGED <<args, linebuf, pc, pending, result, callResult, stdoutBuf,
                   feeder, write_excpts, stdinFd, hist, counts>>

\* the process writes one byte to its stdout pipe; it blocks when it is full
ProcWrite ==
    /\ proc.state = "running"
    /\ proc.stdoutOpen
    /\ Len(procOut) < MaxOut
    /\ Len(stdoutBuf) < StdoutCap
    /\ stdoutBuf' = Append(stdoutBuf, Len(procOut) + 1)
    /\ procOut' = Append(procOut, Len(procOut) + 1)
    /\ UNCHANGED <<args, linebuf, pc, pending, result, callResult, proc, stdinBuf,
                   feeder, write_excpts, stdinFd, written, yielded, counts>>

\* the process closes its stdout
ProcCloseStdout ==
    /\ proc.state = "running"
    /\ proc.stdoutOpen
    /\ proc' = [proc EXCEPT !.stdoutOpen = FALSE]
    /\ UNCHANGED <<args, linebuf, pc, pending, result, callResult, stdinBuf, stdoutBuf,
                   feeder, write_excpts, stdinFd, hist, counts>>

\* the process exits with some code; its ends of the pipes close
ProcExit ==
    /\ proc.state = "running"
    /\ \E code \in ExitCodes :
          proc' = [state |-> "exited", returncode |-> code, stdin |-> proc.stdin,
                   stdinOpen |-> FALSE, stdoutOpen |-> FALSE, hold |-> <<>>]
    /\ stdinBuf' = <<>>
    /\ UNCHANGED <<args, linebuf, pc, pending, result, callResult, stdoutBuf,
                   feeder, write_excpts, stdinFd, hist, counts>>

Next ==
    \/ Execute
    \/ Start
    \/ Resume
    \/ ReadChunk
    \/ ReadEOF
    \/ ReadFails
    \/ Close
    \/ JoinDone
    \/ WaitDone
    \/ FeederNext
    \/ FeederWrite
    \/ ProcRead
    \/ ProcCloseStdin
    \/ ProcWrite
    \/ ProcCloseStdout
    \/ ProcExit

Spec == Init /\ [][Next]_vars

\* threads are scheduled fairly; the process owes nobody a step
MainStep == ReadChunk \/ ReadLinePart \/ ReadEOF \/ JoinDone \/ WaitDone

FeederStep == FeederNext \/ FeederWrite

FairSpec == Spec /\ WF_vars(MainStep) /\ WF_vars(FeederStep)

\* --------------------------------------------- executions of a copy command
\* newline-terminated lines of text
Lines == {<<"\n">>, <<"a", "\n">>, <<"é", "\n">>}

\* the str or bytes value handed over as a single input
ScalarValues == {<<"a", "b">>}

\* sequences of at most n elements of S
SeqsUpTo(S, n) == UNION { [1..k -> S] : k \in 0..n }

\* the inputs of a copy command: text for cmd and linecmd, bytes for bincmd
\* (and the str value that _run_pipeline wraps in a list)
CatInputs(fl) ==
    { [kind |-> "Iterable",
       items |-> IF fl = "bincmd" THEN [i \in 1..Len(ls) |-> Encode(ls[i])] ELSE ls,
       end |-> "stop"] : ls \in SeqsUpTo(Lines, MaxInputLen) }
    \cup { [kind |-> "Text", items |-> <<v>>, end |-> "stop"] : v \in ScalarValues }
    \cup IF fl = "bincmd"
         THEN { [kind |-> "Bytes", items |-> <<v>>, end |-> "stop"] : v \in ScalarValues }
         ELSE {}

\* linecmd: kwargs['bufsize'] = 1; bincmd: kwargs.setdefault('stdout', PIPE)
CatOpts(fl) ==
    [stdout |-> "PIPE", stdin |-> StdinUnset,
     bufsize |-> IF fl = "linecmd" THEN 1 ELSE 0]

CatInit ==
    /\ helper \in Helpers
    /\ flavor \in {"bincmd", "cmd", "linecmd"}
    /\ command = "cat"
    /\ input \in CatInputs(flavor)
    /\ opts = CatOpts(flavor)
    /\ pc = "init"
    /\ pending = NoExc
    /\ result = Pending
    /\ callResult = Pending
    /\ proc = NoProc
    /\ stdinBuf = <<>>
    /\ stdoutBuf = <<>>
    /\ feeder = NoFeeder
    /\ write_excpts = <<>>
    /\ stdinFd = "none"
    /\ written = <<>>
    /\ yielded = <<>>
    /\ procOut = <<>>
    /\ linebuf = <<>>
    /\ fmt = NoFormat
    /\ counts = [popen |-> 0, terminate |-> 0, wait |-> 0, close |-> 0, start |-> 0]

\* cat reads what its stdin holds
CatRead ==
    /\ proc.state = "running"
    /\ proc.hold = <<>>
    /\ Len(stdinBuf) > 0
    /\ proc' = [proc EXCEPT !.hold = stdinBuf]
    /\ stdinBuf' = <<>>
    /\ UNCHANGED <<args, linebuf, pc, pending, result, callResult, stdoutBuf,
                   feeder, write_excpts, stdinFd, hist, counts>>

\* cat writes what it read to its stdout, as room appears in the pipe
CatWrite ==
    /\ proc.state = "running"
    /\ Len(proc.hold) > 0
    /\ Len(stdoutBuf) < StdoutCap
    /\ LET k == Min(StdoutCap - Len(stdoutBuf), Len(proc.hold))
       IN /\ stdoutBuf' = stdoutBuf \o SubSeq(proc.hold, 1, k)
          /\ procOut' = procOut \o SubSeq(proc.hold, 1, k)
          /\ proc' = [proc EXCEPT !.hold = SubSeq(@, k + 1, Len(@))]
    /\ UNCHANGED <<args, linebuf, pc, pending, result, callResult, stdinBuf,
                   feeder, write_excpts, stdinFd, written, yielded, counts>>

\* cat exits with 0 at the end of its stdin, once everything is copied
CatExit ==
    /\ proc.state = "running"
    /\ proc.hold = <<>>
    /\ Len(stdinBuf) = 0
    /\ stdinFd = "closed"
    /\ proc' = [state |-> "exited", returncode |-> 0, stdin |-> proc.stdin,
                stdinOpen |-> FALSE, stdoutOpen |-> FALSE, hold |-> <<>>]
    /\ UNCHANGED <<args, linebuf, pc, pending, result, callResult, stdinBuf, stdoutBuf,
                   feeder, write_excpts, stdinFd, hist, counts>>

CatNext ==
    \/ Execute
    \/ Start
    \/ Resume
    \/ ReadChunk
    \/ ReadLinePart
    \/ ReadEOF
    \/ ReadFails
    \/ Close
    \/ JoinDone
    \/ WaitDone
    \/ FeederNext
    \/ FeederWrite
    \/ CatRead
    \/ CatWrite
    \/ CatExit

CatSpec == CatInit /\ [][CatNext]_vars

\* the loop of _consume keeps asking for the next element, and the operating
\* system keeps running a process that can take a step
CallerStep == Execute \/ Start \/ Resume

CatStep == CatRead \/ CatWrite \/ CatExit

CatFairSpec ==
    /\ CatSpec
    /\ WF_vars(MainStep)
    /\ WF_vars(FeederStep)
    /\ WF_vars(CallerStep)
    /\ WF_vars(CatStep)

\* ------------------------------------------------------------------ format
\* Strings are sequences of characters.

\* the characters of the templates: the two of the placeholder, the two of
\* the %s that format puts in its place, and one that _shell_escape knows
TemplateChars == {"{", "}", "%", "s", "$"}

Templates == SeqsUpTo(TemplateChars, MaxTemplateLen)

\* the arguments: the escaped characters, a placeholder, a brace that closes
\* one, and what % formatting would read
ArgValues ==
    {<<>>, <<"{", "}">>, <<"}">>, <<"%", "s">>, <<"a", " ", "$">>,
     <<"\t", "'", "\"">>}

ArgLists == SeqsUpTo(ArgValues, MaxArgs)

\* an outcome of a call: a string, or an exception class
Ok(str) == [kind |-> "ok", out |-> str]

Fail(cls) == [kind |-> cls, out |-> <<>>]

\* str.count('{}') from position i on: occurrences found left to right
RECURSIVE CountFrom(_, _)
CountFrom(str, i) ==
    IF i >= Len(str) THEN 0
    ELSE IF str[i] = "{" /\ str[i + 1] = "}"
         THEN 1 + CountFrom(str, i + 2)
         ELSE CountFrom(str, i + 1)

\* a count of the opening braces
CountBraces(str) == Cardinality({i \in 1..Len(str) : str[i] = "{"})

\* command.count('{}')
CountPlaceholders(str) == CountFrom(str, 1)

\* str.replace('%', '%%') from position i on
RECURSIVE DoubleFrom(_, _)
DoubleFrom(str, i) ==
    IF i > Len(str) THEN <<>>
    ELSE (IF str[i] = "%" THEN <<"%", "%">> ELSE <<str[i]>>)
             \o DoubleFrom(str, i + 1)

\* a format that leaves the percent signs of the template single
KeepPercent(str) == str

\* command.replace('%', '%%')
DoublePercent(str) == DoubleFrom(str, 1)

\* str.replace('{}', '%s') from position i on
RECURSIVE PlaceholdersFrom(_, _)
PlaceholdersFrom(str, i) ==
    IF i > Len(str) THEN <<>>
    ELSE IF i < Len(str) /\ str[i] = "{" /\ str[i + 1] = "}"
         THEN <<"%", "s">> \o PlaceholdersFrom(str, i + 2)
         ELSE <<str[i]>> \o PlaceholdersFrom(str, i + 1)

\* .replace('{}', '%s')
ToPercentS(str) == PlaceholdersFrom(str, 1)

\* the characters of the class [ \t'"\$]
Special == {" ", "\t", "'", "\"", "$"}

\* re.sub(r'([ \t\'"\$])', r'\\\1', str) from position i on
RECURSIVE EscapeFrom(_, _, _)
EscapeFrom(class, str, i) ==
    IF i > Len(str) THEN <<>>
    ELSE (IF str[i] \in class THEN <<"\\", str[i]>> ELSE <<str[i]>>)
             \o EscapeFrom(class, str, i + 1)

\* an escape that knows no dollar sign
_shell_escapeNoDollar(str) == EscapeFrom(Special \ {"$"}, str, 1)

_shell_escape(str) == EscapeFrom(Special, str, 1)

\* fmt % values from position i on, values from the k-th on still unused:
\* '%%' gives '%', '%s' takes the next value, any other character of
\* TemplateChars after '%' is no conversion, and a value left over is an error
RECURSIVE PercentFrom(_, _, _, _)
PercentFrom(str, i, values, k) ==
    IF i > Len(str)
    THEN IF k <= Len(values) THEN Fail("TypeError") ELSE Ok(<<>>)
    ELSE IF str[i] # "%"
         THEN LET r == PercentFrom(str, i + 1, values, k)
              IN IF r.kind = "ok" THEN Ok(<<str[i]>> \o r.out) ELSE r
         ELSE IF i = Len(str) THEN Fail("ValueError")
         ELSE IF str[i + 1] = "%"
              THEN LET r == PercentFrom(str, i + 2, values, k)
                   IN IF r.kind = "ok" THEN Ok(<<"%">> \o r.out) ELSE r
         ELSE IF str[i + 1] = "s"
              THEN IF k > Len(values) THEN Fail("TypeError")
                   ELSE LET r == PercentFrom(str, i + 2, values, k + 1)
                        IN IF r.kind = "ok" THEN Ok(values[k] \o r.out) ELSE r
         ELSE Fail("ValueError")

\* fmt % tuple(values)
PercentFormat(str, values) == PercentFrom(str, 1, values, 1)

\* format(command, args)
format(cmd, as) ==
    IF CountPlaceholders(cmd) # Len(as)
    THEN Fail("TypeError")
    ELSE PercentFormat(ToPercentS(DoublePercent(cmd)),
                       [i \in 1..Len(as) |-> _shell_escape(as[i])])

\* the variables of a pipeline run, which a call of format leaves alone
pipeline == <<helper, flavor, command, input, opts, pc, pending, result,
              callResult, proc, stdinBuf, stdoutBuf, feeder, write_excpts,
              stdinFd, written, yielded, procOut, linebuf, counts>>

\* a call format(command, args) about to be made, and no pipeline
FormatInit ==
    /\ fmt \in [state : {"call"}, command : Templates, args : ArgLists,
                first : {Fail("none")}, second : {Fail("none")}]
    /\ helper = "run"
    /\ flavor = "bincmd"
    /\ command = ""
    /\ input = InputNone
    /\ opts = [stdout |-> "PIPE", stdin |-> StdinUnset, bufsize |-> 0]
    /\ pc = "init"
    /\ pending = NoExc
    /\ result = Pending
    /\ callResult = Pending
    /\ proc = NoProc
    /\ stdinBuf = <<>>
    /\ stdoutBuf = <<>>
    /\ feeder = NoFeeder
    /\ write_excpts = <<>>
    /\ stdinFd = "none"
    /\ written = <<>>
    /\ yielded = <<>>
    /\ procOut = <<>>
    /\ linebuf = <<>>
    /\ counts = [popen |-> 0, terminate |-> 0, wait |-> 0, close |-> 0, start |-> 0]

\* format(command, args) returns or raises
FormatCall ==
    /\ fmt.state = "call"
    /\ fmt' = [fmt EXCEPT !.state = "done",
                          !.first = format(fmt.command, fmt.args)]
    /\ UNCHANGED pipeline

\* format(out, []) on the string the first call returned
FormatAgain ==
    /\ fmt.state = "done"
    /\ fmt.first.kind = "ok"
    /\ fmt' = [fmt EXCEPT !.state = "again",
                          !.second = format(fmt.first.out, <<>>)]
    /\ UNCHANGED pipeline

FormatNext == FormatCall \/ FormatAgain

FormatSpec == FormatInit /\ [][FormatNext]_vars

\* ----------------------------------------------------------------- claims
\* a process was spawned and the generator ran to its end under next()
\* alone: it was not closed and its own read did not fail
Drained ==
    /\ pc = "finished"
    /\ counts.popen = 1
    /\ pending = NoExc
    /\ result.kind \in {"stop", "raise"}

\* the outcome the exit code alone decides
ByExitCode ==
    IF proc.returncode = 0
    THEN Stop
    ELSE Raised(CalledProcessError(proc.returncode, command))

\* C1: whatever exception the input source raises while the feeder iterates
\* it, a drain of the output ends by raising that very exception object.
C1_SourceExceptionReachesCaller ==
    (Drained /\ feeder.exc.origin = "source") => result = Raised(feeder.exc)

\* C2: a broken pipe on write ends the feeder without a recorded exception
\* and with the pipe closed, the element in hand stays unwritten, and a
\* drain then ends as the exit code alone decides.
C2_BrokenPipeIsNotAnError ==
    feeder.exc = BrokenPipe =>
        /\ feeder.pc = "done"
        /\ write_excpts = <<>>
        /\ stdinFd = "closed"
        /\ Len(written) = feeder.idx - 1
        /\ Drained => result = ByExitCode

C2_Witness ==
    /\ feeder.exc = BrokenPipe
    /\ Len(written) < Len(input.items)
    /\ Drained
    /\ result.kind = "stop"

\* C3: when an exception leaves the with block before exhaustion (the
\* generator is closed at a yield, or its read raises), the process is
\* terminated, never waited for, and not left running.
C3_EscapeTerminatesProcess ==
    (pc = "finished" /\ pending # NoExc) =>
        /\ counts.terminate = 1
        /\ counts.wait = 0
        /\ proc.state # "running"

\* C4: closing the generator before exhaustion always completes, with the
\* feeder joined.
C4_CloseCompletes ==
    (pc = "joining" /\ pending = GeneratorExit)
        ~> (pc = "finished" /\ feeder.pc = "done")

\* the chunks of a sequence of chunks, joined
RECURSIVE Flatten(_)
Flatten(chunks) ==
    IF chunks = <<>> THEN <<>> ELSE Head(chunks) \o Flatten(Tail(chunks))

RaisedCPE(res) == res.kind = "raise" /\ res.exc.cls = "CalledProcessError"

\* C5: CalledProcessError is raised only when nothing of the output remains
\* (with a pipe: end of file reached and everything the process wrote was
\* yielded; without: nothing to yield), and it carries the exit code and the
\* command.
C5_FailureOnlyAfterDrain ==
    RaisedCPE(result) =>
        /\ IF opts.stdout = "PIPE"
           THEN AtEOF /\ Flatten(yielded) = procOut
           ELSE yielded = <<>>
        /\ proc.state = "exited"
        /\ result.exc.returncode = proc.returncode
        /\ result.exc.returncode # 0
        /\ result.exc.cmd = command

C5_Witness ==
    /\ RaisedCPE(result)
    /\ opts.stdout = "PIPE"
    /\ Len(procOut) = MaxOut
    /\ Len(yielded) > 1

EmptyInput == [kind |-> "Iterable", items |-> <<>>, end |-> "stop"]

\* C6: with input None or an empty input, call never raises
\* CalledProcessError, and when the drain reaches the end of the output it
\* returns the exit code of the process.
C6_CallReturnsExitCode ==
    (helper = "call" /\ input \in {InputNone, EmptyInput}) =>
        /\ ~RaisedCPE(callResult)
        /\ Drained => /\ callResult = Returned(proc.returncode)
                      /\ proc.state = "exited"
                      /\ counts.wait = 1

C6_Witness ==
    /\ helper = "call"
    /\ input = EmptyInput
    /\ Drained
    /\ callResult = Returned(1)

\* C7 as claimed: for every input, a check_call that drained the output
\* raises CalledProcessError exactly when the code the process exited with
\* is non-zero.
C7_CheckCallIffNonZero ==
    (helper = "check_call" /\ Drained /\ proc.returncode \in ExitCodes) =>
        (RaisedCPE(callResult) <=> proc.returncode # 0)

\* C7 as amended: if the feeder captured an exception, check_call raises
\* that exception whatever the exit code; otherwise it raises
\* CalledProcessError exactly when the exit code is non-zero.
C7_CheckCallIffNonZeroUnlessCaptured ==
    (helper = "check_call" /\ Drained) =>
        IF feeder.exit = "captured"
        THEN callResult = Raised(feeder.exc)
        ELSE /\ proc.state = "exited"
             /\ RaisedCPE(callResult) <=> proc.returncode # 0
             /\ ~RaisedCPE(callResult) => callResult = Returned(0)

C7_Witness ==
    /\ helper = "check_call"
    /\ Drained
    /\ feeder.exit = "exhausted"
    /\ Len(written) = MaxInputLen
    /\ RaisedCPE(callResult)

\* C8: when both an exception from the consuming side and a captured feeder
\* exception exist, the consuming-side one is what leaves the generator.
C8_ConsumerErrorWins ==
    (pc = "finished" /\ pending # NoExc /\ feeder.exit = "captured") =>
        result = (IF pending = GeneratorExit THEN Closed ELSE Raised(pending))

ValidInput == input.kind # "NotIterable"

\* C9 as claimed: once run has returned the output sequence, one process
\* has been spawned and the feeder of an iterable input started.
C9_SpawnedOnReturn ==
    (helper = "run" /\ callResult.kind = "return" /\ ValidInput) =>
        /\ counts.popen = 1
        /\ counts.start = (IF _is_iterable(input) THEN 1 ELSE 0)

\* C9 as amended: the call itself spawns nothing; the first request for an
\* output element spawns the one process (and starts the feeder of an
\* iterable input), and no request spawns a second.
C9_SpawnedOnFirstRequest ==
    /\ pc \in {"init", "unstarted", "nogen"} => counts.popen = 0 /\ counts.start = 0
    /\ (pc = "finished" /\ result.kind = "closed" /\ pending = NoExc)
          => counts.popen = 0 /\ counts.start = 0
    /\ (ValidInput /\ pc \in {"reading", "suspended", "joining", "waiting"})
          => /\ counts.popen = 1
             /\ counts.start = (IF _is_iterable(input) THEN 1 ELSE 0)
    /\ (ValidInput /\ pc = "finished" /\ ~(result.kind = "closed" /\ pending = NoExc))
          => /\ counts.popen = 1
             /\ counts.start = (IF _is_iterable(input) THEN 1 ELSE 0)

C9_Witness ==
    /\ helper = "run"
    /\ pc = "suspended"
    /\ Len(yielded) = 2
    /\ counts.popen = 1

\* C10: with an input that is neither None nor iterable, the call fails
\* with TypeError instead of handing back an output sequence, and no process
\* is spawned.
C10_TypeErrorAtCall ==
    (input.kind = "NotIterable" /\ pc # "init") =>
        /\ callResult.kind # "return"
        /\ counts.popen = 0

IsPrefix(a, b) == Len(a) <= Len(b) /\ a = SubSeq(b, 1, Len(a))

\* C12: what the feeder has written is a prefix of the input in iteration
\* order, and what the generator has yielded is, joined, a prefix of what the
\* process wrote, in the order it wrote it.
C12_OrderPreserved ==
    /\ IsPrefix(written, StdinItems(flavor, input))
    /\ IsPrefix(Flatten(yielded), procOut)

C12_Witness ==
    /\ Len(written) = MaxInputLen
    /\ Len(Flatten(yielded)) = MaxOut

FeederInv ==
    /\ counts.start <= 1
    /\ counts.start = 1 <=> feeder.pc # "none"
    /\ (Len(yielded) > 0 /\ _is_iterable(input)) => counts.start = 1
    /\ feeder.pc = "done" <=> stdinFd = "closed"
    /\ counts.close = (IF feeder.pc = "done" THEN 1 ELSE 0)

\* only a step of the feeder writes to the stdin pipe or closes it
OnlyFeederTouchesStdin ==
    (\/ written' # written
     \/ (stdinFd' = "closed" /\ stdinFd # "closed")
     \/ Len(stdinBuf') > Len(stdinBuf))
      => (feeder' # feeder /\ pc' = pc)

\* C19: at most one feeder is started, before the first output element; only
\* the feeder writes to or closes the stdin pipe; and it closes the pipe
\* exactly once, on whichever path it ends.
C19_FeederOwnsStdin == []FeederInv /\ [][OnlyFeederTouchesStdin]_vars

C19_Witness ==
    /\ feeder.exit = "captured"
    /\ stdinFd = "closed"
    /\ counts.close = 1
    /\ Len(yielded) > 0

\* C20: the process is waited for only after exhaustion and a join without
\* captured exception; a captured exception is raised instead of the exit
\* code check; and an execution that ended has exactly one of the outcomes
\* Success, Failed (CalledProcessError with the code) or Errored (an
\* exception, the process terminated and not waited for).
C20_OneOutcomeInOrder ==
    /\ counts.wait <= 1
    /\ counts.wait = 1 =>
          /\ pending = NoExc
          /\ feeder.pc \in {"none", "done"}
          /\ feeder.exit # "captured"
    /\ (pc = "finished" /\ feeder.exit = "captured") =>
          /\ result = Raised(feeder.exc)
          /\ counts.wait = 0
    /\ (pc = "finished" /\ counts.popen = 1) =>
          \/ /\ result = Stop
             /\ counts.wait = 1 /\ counts.terminate = 0
             /\ proc.returncode = 0
          \/ /\ result = Raised(CalledProcessError(proc.returncode, command))
             /\ counts.wait = 1 /\ counts.terminate = 0
             /\ proc.returncode # 0
          \/ /\ result.kind \in {"raise", "closed"}
             /\ ~RaisedCPE(result)
             /\ counts.wait = 0 /\ counts.terminate = 1
             /\ proc.state = "exited"

\* the incremental decoder of iterdecode on data: the text decoded and the
\* bytes of an unfinished character it keeps for the next chunk
RECURSIVE DecodeBytes(_)
DecodeBytes(data) ==
    IF data = <<>> THEN [text |-> <<>>, rest |-> <<>>]
    ELSE IF Head(data) = "C3"
         THEN IF Len(data) = 1
              THEN [text |-> <<>>, rest |-> data]
              ELSE LET d == DecodeBytes(SubSeq(data, 3, Len(data)))
                   IN [text |-> <<"é">> \o d.text, rest |-> d.rest]
         ELSE LET d == DecodeBytes(Tail(data))
              IN [text |-> <<Head(data)>> \o d.text, rest |-> d.rest]

\* codecs.iterdecode: every chunk goes through the decoder, and what it
\* gives is yielded unless it is empty
RECURSIVE IterDecode(_, _)
IterDecode(chunks, carry) ==
    IF chunks = <<>> THEN <<>>
    ELSE LET d == DecodeBytes(carry \o Head(chunks))
         IN (IF d.text = <<>> THEN <<>> ELSE <<d.text>>)
                \o IterDecode(Tail(chunks), d.rest)

\* what the caller of cmd / linecmd gets: decode(bincmd(...)(encode(input)))
Decoded == IterDecode(yielded, <<>>)

\* C11: against a copy command, with bounded pipes, the feeder never holds
\* more than the one element it is writing; a drain of an iterable input
\* ends with every element written and copied through; and a caller that
\* keeps asking for output always reaches the end.
C11_CopyTerminates ==
    /\ [](/\ feeder.idx - Len(written) <= 1
          /\ (Drained /\ input.kind = "Iterable") =>
                /\ feeder.exit = "exhausted"
                /\ written = StdinItems(flavor, input)
                /\ procOut = Flatten(written)
                /\ Flatten(yielded) = procOut
                /\ result = Stop)
    /\ (helper # "run") => <>(pc = "finished" \/ pending = ReadError)

C11_Witness ==
    /\ command = "cat"
    /\ helper = "check_call"
    /\ Drained
    /\ Len(written) = MaxInputLen
    /\ Len(Flatten(written)) > StdinCap + StdoutCap

\* C13: a sequence of newline-terminated lines run through linecmd with a
\* copy command comes back as the same sequence of lines.
C13_LineRoundTrip ==
    (flavor = "linecmd" /\ input.kind = "Iterable" /\ Drained) =>
        Decoded = input.items

C13_Witness ==
    /\ flavor = "linecmd"
    /\ input.kind = "Iterable"
    /\ Len(input.items) = MaxInputLen
    /\ input.items[1] = <<"é", "\n">>
    /\ Drained
    /\ Decoded = input.items

\* a str value for cmd and linecmd, a bytes value for bincmd
TypedScalar ==
    \/ flavor \in {"cmd", "linecmd"} /\ input.kind = "Text"
    \/ flavor = "bincmd" /\ input.kind = "Bytes"

\* C15: a single value is written by exactly one write that carries the
\* whole value, and the process receives exactly that value.
C15_ScalarIsOneWrite ==
    (TypedScalar /\ Drained) =>
        /\ written = << IF flavor = "bincmd" THEN input.items[1]
                        ELSE Encode(input.items[1]) >>
        /\ procOut = Flatten(written)

\* the positions of cmd at which a placeholder starts
PlaceholderAt(str) ==
    {i \in 1..(Len(str) - 1) : str[i] = "{" /\ str[i + 1] = "}"}

\* C16: format raises TypeError exactly when the number of placeholders of
\* the command differs from the number of arguments; otherwise it returns a
\* string; and the call changes neither the command nor the arguments.
C16_ArityCheck ==
    /\ [](fmt.state # "call" =>
            /\ (fmt.first.kind = "TypeError")
                 <=> (Cardinality(PlaceholderAt(fmt.command)) # Len(fmt.args))
            /\ fmt.first.kind \in {"TypeError", "ok"})
    /\ [][fmt'.command = fmt.command /\ fmt'.args = fmt.args]_vars

C16_Witness ==
    /\ fmt.state = "done"
    /\ fmt.first.kind = "TypeError"
    /\ Len(fmt.args) = 1
    /\ Cardinality(PlaceholderAt(fmt.command)) = 0
    /\ \E i \in 1..Len(fmt.command) : fmt.command[i] = "{"

\* an argument with a backslash before each of its special characters
RECURSIVE Escaped(_)
Escaped(a) ==
    IF a = <<>> THEN <<>>
    ELSE (IF Head(a) \in {" ", "\t", "'", "\"", "$"} THEN <<"\\">> ELSE <<>>)
             \o <<Head(a)>> \o Escaped(Tail(a))

\* the template with its placeholders, left to right, replaced by the
\* escaped arguments; nothing that was put in is read again
RECURSIVE Substituted(_, _)
Substituted(str, as) ==
    IF str = <<>> THEN <<>>
    ELSE IF Len(str) >= 2 /\ str[1] = "{" /\ str[2] = "}"
         THEN Escaped(Head(as)) \o Substituted(SubSeq(str, 3, Len(str)), Tail(as))
         ELSE <<Head(str)>> \o Substituted(Tail(str), as)

C18_Idempotent ==
    (fmt.state = "again") => fmt.second = fmt.first

\* C18: format applied to its own output with no arguments returns that
\* output when the output holds no placeholder, and raises TypeError when
\* it holds one.
C18_IdempotentWithoutPlaceholders ==
    (fmt.state = "again") =>
        IF PlaceholderAt(fmt.first.out) = {}
        THEN fmt.second = fmt.first
        ELSE fmt.second.kind = "TypeError"

C18_Witness ==
    /\ fmt.state = "again"
    /\ fmt.command = <<"%", "{", "}">>
    /\ fmt.args = << <<"%", "s">> >>
    /\ fmt.second = Ok(<<"%", "%", "s">>)

\* C21: the stdin of the spawned process is a pipe of the executor exactly
\* when the input is iterable, and the stdin of the parent when the input is
\* None; a stdin given in the spawn options never reaches Popen.
C21_StdinDecidedByInput ==
    proc.state # "unspawned" =>
        /\ proc.stdin = "PIPE" <=> _is_iterable(input)
        /\ input.kind = "None" => proc.stdin = "inherit"
        /\ proc.stdin # "redirect"

C21_Witness ==
    /\ opts.stdin = StdinRedirect
    /\ input.kind = "None"
    /\ proc.state = "exited"
    /\ proc.stdin = "inherit"
    /\ counts.start = 0

====
